---- MODULE Spec2Model ----
(***************************************************************************)
(* A model of the GPT-2 layer primitives of src/llm-rs/src/gpt2/util.rs.   *)
(*                                                                         *)
(* Buffers are flat arrays (functions 0..n-1 -> Int) addressed with the    *)
(* same row-major index arithmetic as the pointer arithmetic of the code.  *)
(* f32 values are modelled as integers, so + and * are exact; the          *)
(* operations that leave the integers (division, sqrt, exp, tanh, cosh,    *)
(* ln) are computed in fixed point with unit 1/ONE.  matmul_forward can    *)
(* additionally run with a rounding accumulator (MantBits significant      *)
(* bits) so that the order of accumulation is observable.                  *)
(*                                                                         *)
(* A call of a sequential primitive is one action.  A primitive that fans  *)
(* out over rayon workers is a start action, one action per worker step    *)
(* and a join action; for_each returns only when every worker is done.     *)
(***************************************************************************)
EXTENDS Integers, Sequences, FiniteSets, TLC

VARIABLES
    op,      \* the primitive under call
    shape,   \* its shape arguments B, T, C, OC, NH, V, Vp, N
    inp,     \* its read-only argument buffers
    mem,     \* its output (mutable) argument buffers
    mem0,    \* contents of the output buffers before the first call
    mem1,    \* contents of the output buffers after the first call
    calls,   \* number of calls that have returned
    pc,      \* position of the call in flight ("idle" when none)
    wk,      \* local state of each rayon worker of the call in flight
    acc,     \* reads and writes of logged buffers made by the current/last call
    fp,      \* arithmetic of matmul_forward: "exact", or "round" to MantBits bits
    saved    \* the caller's copy of the argument buffers as first passed

vars == <<op, shape, inp, mem, mem0, mem1, calls, pc, wk, acc, fp, saved>>

----------------------------------------------------------------------------
(* Bounds of the model. *)

\* number of input patterns each argument buffer is drawn from
MaxPat == 2
\* number of successive calls on the same buffers
MaxCalls == 3
\* significant bits kept by the rounding accumulator of matmul_forward
MantBits == 2

----------------------------------------------------------------------------
(* Arithmetic. *)

\* fixed-point unit of the non-integer operations
ONE == 1000

Abs(x) == IF x < 0 THEN -x ELSE x

\* division rounding toward zero
Quot(a, b) == IF (a < 0) # (b < 0) THEN -(Abs(a) \div Abs(b)) ELSE Abs(a) \div Abs(b)

RECURSIVE Pow2(_)
Pow2(n) == IF n <= 0 THEN 1 ELSE 2 * Pow2(n - 1)

RECURSIVE BitLen(_)
BitLen(x) == IF x <= 0 THEN 0 ELSE 1 + BitLen(x \div 2)

\* x rounded to MantBits significant bits, ties to even
RoundF(x) ==
    LET a == Abs(x)
        e == BitLen(a) - MantBits
        u == Pow2(e)
        q == a \div u
        r == a % u
        up == (2 * r > u) \/ (2 * r = u /\ q % 2 = 1)
        v == IF up THEN (q + 1) * u ELSE q * u
    IN  IF e <= 0 THEN x ELSE IF x < 0 THEN -v ELSE v

\* f32 addition and multiplication under arithmetic mode md
FAdd(md, x, y) == IF md = "round" THEN RoundF(x + y) ELSE x + y
FMul(md, x, y) == IF md = "round" THEN RoundF(x * y) ELSE x * y

RECURSIVE ISqrtBin(_, _, _)
ISqrtBin(n, lo, hi) ==
    IF hi - lo <= 1 THEN lo
    ELSE LET mid == (lo + hi) \div 2
         IN  IF mid * mid <= n THEN ISqrtBin(n, mid, hi) ELSE ISqrtBin(n, lo, mid)

\* floor of the square root
ISqrt(n) == IF n <= 0 THEN 0 ELSE ISqrtBin(n, 0, IF n < 46340 THEN n + 1 ELSE 46340)

----------------------------------------------------------------------------
(* Loops and buffers. *)

\* st after iterations lo..hi-1 of Body (the test on st has TLC evaluate the
\* state left by an iteration before it starts the next)
RECURSIVE For(_, _, _, _)
For(lo, hi, Body(_, _), st) ==
    IF lo >= hi \/ DOMAIN st = {} THEN st ELSE For(lo + 1, hi, Body, Body(st, lo))

For2(n1, n2, Body(_, _, _), st) ==
    For(0, n1, LAMBDA s1, a : For(0, n2, LAMBDA s2, b : Body(s2, a, b), s1), st)

For3(n1, n2, n3, Body(_, _, _, _), st) ==
    For(0, n1, LAMBDA s1, a :
        For(0, n2, LAMBDA s2, b :
            For(0, n3, LAMBDA s3, c : Body(s3, a, b, c), s2), s1), st)

\* sum of F(i) for i in lo..hi-1
RECURSIVE SumOf(_, _, _)
SumOf(F(_), lo, hi) == IF lo >= hi THEN 0 ELSE F(lo) + SumOf(F, lo + 1, hi)

\* a null base pointer
Null == <<>>

Main == <<"main", 0>>

Access(w, k, b, i) == [w |-> w, k |-> k, b |-> b, i |-> i]

\* a logged read of cell i of buffer b by worker w; kind "p" marks a read of
\* what the cell held before w first wrote it in this call
Rd(st, w, b, i) ==
    [st EXCEPT !.a = @ \cup {Access(w, "r", b, i)}
                       \cup (IF Access(w, "w", b, i) \in st.a THEN {}
                             ELSE {Access(w, "p", b, i)})]

\* a logged write of v to cell i of buffer b by worker w
Wr(st, w, b, i, v) ==
    [st EXCEPT !.m = [@ EXCEPT ![b][i] = v], !.a = @ \cup {Access(w, "w", b, i)}]

\* *p += d
AddTo(st, w, b, i, d) == Wr(Rd(st, w, b, i), w, b, i, st.m[b][i] + d)

Zeros(n) == [i \in 0 .. n - 1 |-> 0]

\* the k-th input pattern of length n, values in -2..2
Pat(k, n) == [i \in 0 .. n - 1 |-> ((k + (k + 1) * i) % 5) - 2]

Pats(n) == {Pat(k, n) : k \in 0 .. MaxPat - 1}

\* non-negative patterns with values in 0..hi-1 (token ids)
IdPats(n, hi) == {[i \in 0 .. n - 1 |-> ((k + (k + 1) * i) % 5) % hi] : k \in 0 .. MaxPat - 1}

Shp(b, t, c, oc, nh, v, vp, n) ==
    [B |-> b, T |-> t, C |-> c, OC |-> oc, NH |-> nh, V |-> v, Vp |-> vp, N |-> n]

----------------------------------------------------------------------------
(* Fixed-point transcendental functions: tables on a grid of ONE/2 (ln: of *)
(* ONE/10) with linear interpolation in between.                           *)

\* std::f32::consts::PI in units of 1/ONE
PI == 3142

\* f32::NEG_INFINITY
NegInf == -1000000000

Half == ONE \div 2
Tenth == ONE \div 10

\* the table value at a >= 0, on a grid of the given step
Interp(tab, step, a) ==
    LET q == a \div step
        r == a % step
    IN  IF q + 1 >= Len(tab) THEN tab[Len(tab)]
        ELSE tab[q + 1] + Quot((tab[q + 2] - tab[q + 1]) * r, step)

TanhTab == <<0, 462, 762, 905, 964, 987, 995, 998, 999, 1000>>
CoshTab == <<1000, 1128, 1543, 2352, 3762, 6132, 10068, 16573, 27308, 45014>>
ExpTab  == <<1000, 607, 368, 223, 135, 82, 50, 30, 18, 11, 7, 4, 2, 2, 1, 1, 0>>
LnTab   == <<-6908, -2303, -1609, -1204, -916, -693, -511, -357, -223, -105, 0>>

\* tanh(u / ONE) * ONE
TanhFx(u) == IF u < 0 THEN -Interp(TanhTab, Half, -u) ELSE Interp(TanhTab, Half, u)

\* cosh(u / ONE) * ONE
CoshFx(u) == Interp(CoshTab, Half, Abs(u))

\* exp(d / ONE) * ONE for d <= 0; underflows to 0
ExpFx(d) == IF d > 0 THEN ONE ELSE IF d <= NegInf THEN 0 ELSE Interp(ExpTab, Half, -d)

\* ln(p / ONE) * ONE for 0 <= p <= ONE; ln(0) is -inf
LnFx(p) == IF p <= 0 THEN NegInf ELSE IF p >= ONE THEN 0 ELSE Interp(LnTab, Tenth, p)

\* sqrt(x / ONE) * ONE
SqrtFx(x) == ISqrt(x * ONE)

----------------------------------------------------------------------------
(* encoder_backward *)

\* the token row is stored instead of accumulated
EncoderBackwardCell_Overwrite(st, b, t, i) ==
    LET T == shape.T
        C == shape.C
        d == inp.dout[b * T * C + t * C + i]
        ix == inp.inp[b * T + t]
        s1 == Wr(st, Main, "dwte", ix * C + i, d)
    IN  AddTo(s1, Main, "dwpe", t * C + i, d)

EncoderBackwardCell(st, b, t, i) ==
    LET T == shape.T
        C == shape.C
        d == inp.dout[b * T * C + t * C + i]
        ix == inp.inp[b * T + t]
        s1 == AddTo(st, Main, "dwte", ix * C + i, d)
    IN  AddTo(s1, Main, "dwpe", t * C + i, d)

EncoderBackwardRun(st) == For3(shape.B, shape.T, shape.C, EncoderBackwardCell, st)

----------------------------------------------------------------------------
(* layernorm_backward: dinp is in units of 1/ONE (the two reductions are   *)
(* divided by C), dweight and dbias are in whole units.                    *)

LayernormNorm(b, t, i) ==
    LET T == shape.T
        C == shape.C
    IN  (inp.inp[b * T * C + t * C + i] - inp.mean[b * T + t]) * inp.rstd[b * T + t]

LayernormDnorm(b, t, i) ==
    inp.weight[i] * inp.dout[b * shape.T * shape.C + t * shape.C + i]

LayernormBackwardCell(st, b, t, i, dnorm_mean, dnorm_norm_mean) ==
    LET T == shape.T
        C == shape.C
        norm_bti == LayernormNorm(b, t, i)
        dnorm_i == LayernormDnorm(b, t, i)
        dout_bti == inp.dout[b * T * C + t * C + i]
        s1 == AddTo(st, Main, "dbias", i, dout_bti)
        s2 == AddTo(s1, Main, "dweight", i, norm_bti * dout_bti)
        dval == (dnorm_i * ONE - dnorm_mean - norm_bti * dnorm_norm_mean) * inp.rstd[b * T + t]
    IN  AddTo(s2, Main, "dinp", b * T * C + t * C + i, dval)

LayernormBackwardRow(st, b, t) ==
    LET C == shape.C
        dnorm_mean == Quot(SumOf(LAMBDA i : LayernormDnorm(b, t, i), 0, C) * ONE, C)
        dnorm_norm_mean ==
            Quot(SumOf(LAMBDA i : LayernormDnorm(b, t, i) * LayernormNorm(b, t, i), 0, C) * ONE, C)
    IN  For(0, C, LAMBDA s, i : LayernormBackwardCell(s, b, t, i, dnorm_mean, dnorm_norm_mean), st)

LayernormBackwardRun(st) == For2(shape.B, shape.T, LayernormBackwardRow, st)

----------------------------------------------------------------------------
(* gelu_backward: inp and dout in whole units, dinp in units of 1/ONE.     *)

\* 0.044715 in units of 1/ONE
GeluCoef == 45

\* (2.0 / PI).sqrt()
GeluScalingFactor == SqrtFx(Quot(2 * ONE * ONE, PI))

\* gelu_scaling_factor * (x + cube)
GeluTanhArg(x) == Quot(GeluScalingFactor * (x * ONE + GeluCoef * x * x * x), ONE)

GeluLocalGrad(x) ==
    LET tanh_arg == GeluTanhArg(x)
        tanh_out == TanhFx(tanh_arg)
        coshf_out == CoshFx(tanh_arg)
        sech_out == Quot(ONE * ONE, Quot(coshf_out * coshf_out, ONE))
    IN  Quot(ONE + tanh_out, 2)
        + Quot(Quot(x * Quot(sech_out, 2) * GeluScalingFactor, ONE)
               * (ONE + 3 * GeluCoef * x * x), ONE)

GeluBackwardCell(st, i) == AddTo(st, Main, "dinp", i, GeluLocalGrad(inp.inp[i]) * inp.dout[i])

GeluBackwardRun(st) == For(0, shape.N, GeluBackwardCell, st)

----------------------------------------------------------------------------
(* residual_backward *)

\* the cell update adding dout to dinp1 only
ResidualBackwardCell_FirstOnly(st, i) == AddTo(st, Main, "dinp1", i, inp.dout[i])

ResidualBackwardCell(st, i) ==
    AddTo(AddTo(st, Main, "dinp1", i, inp.dout[i]), Main, "dinp2", i, inp.dout[i])

ResidualBackwardRun(st) == For(0, shape.N, ResidualBackwardCell, st)

----------------------------------------------------------------------------
(* crossentropy_softmax_backward: probs and dlogits in units of 1/ONE.     *)

\* the cell update without the indicator of the target
CrossentropySoftmaxBackwardCell_NoIndicator(st, b, t, i) ==
    LET T == shape.T
        Vp == shape.Vp
        dloss == inp.dlosses[b * T + t]
        p == inp.probs[b * T * Vp + t * Vp + i]
    IN  AddTo(st, Main, "dlogits", b * T * Vp + t * Vp + i, p * dloss)

CrossentropySoftmaxBackwardCell(st, b, t, i) ==
    LET T == shape.T
        Vp == shape.Vp
        dloss == inp.dlosses[b * T + t]
        ix == inp.targets[b * T + t]
        p == inp.probs[b * T * Vp + t * Vp + i]
        indicator == IF i = ix THEN ONE ELSE 0
    IN  AddTo(st, Main, "dlogits", b * T * Vp + t * Vp + i, (p - indicator) * dloss)

\* the loop over i runs to Vp
CrossentropySoftmaxBackwardRun_ToVp(st) ==
    For3(shape.B, shape.T, shape.Vp, CrossentropySoftmaxBackwardCell, st)

CrossentropySoftmaxBackwardRun(st) ==
    For3(shape.B, shape.T, shape.V, CrossentropySoftmaxBackwardCell, st)

----------------------------------------------------------------------------
(* attention_backward: sequential over (b, t, h).  inp, att and dout are   *)
(* in whole units; scale is in units of 1/ONE, and so are the query and    *)
(* key slices of dinp.                                                     *)

\* 1.0 / (hs as f32).sqrt()
AttScale(hs) == Quot(ONE * ONE, SqrtFx(hs * ONE))

HeadSize == shape.C \div shape.NH

\* offset of row (b, h, t) in preatt / att / dpreatt / datt
AttRow(b, h, t) == b * shape.NH * shape.T * shape.T + h * shape.T * shape.T + t * shape.T

\* offsets in the fused qkv buffer
QueryAt(b, t, h) == b * shape.T * (shape.C * 3) + t * (shape.C * 3) + h * HeadSize
KeyAt(b, t2, h) == b * shape.T * (shape.C * 3) + t2 * (shape.C * 3) + h * HeadSize + shape.C
ValueAt(b, t2, h) == b * shape.T * (shape.C * 3) + t2 * (shape.C * 3) + h * HeadSize + 2 * shape.C

\* the offset of out[b, t, :] without the offset h * hs of the head
OutAt_NoHead(b, t, h) == b * shape.T * shape.C + t * shape.C

\* offset of out[b, t, h*hs] / dout[b, t, h*hs]
OutAt(b, t, h) == b * shape.T * shape.C + t * shape.C + h * HeadSize

\* the value gradient is stored instead of accumulated
AttentionBackwardPass4_Overwrite(st, b, t, h, t2, i) ==
    LET dout_i == inp.dout[OutAt(b, t, h) + i]
        s1 == AddTo(st, Main, "datt", AttRow(b, h, t) + t2, inp.inp[ValueAt(b, t2, h) + i] * dout_i)
    IN  Wr(s1, Main, "dinp", ValueAt(b, t2, h) + i, inp.att[AttRow(b, h, t) + t2] * dout_i)

\* backward pass 4: through the value accumulation
AttentionBackwardPass4(st, b, t, h, t2, i) ==
    LET dout_i == inp.dout[OutAt(b, t, h) + i]
        s1 == AddTo(st, Main, "datt", AttRow(b, h, t) + t2, inp.inp[ValueAt(b, t2, h) + i] * dout_i)
    IN  AddTo(s1, Main, "dinp", ValueAt(b, t2, h) + i, inp.att[AttRow(b, h, t) + t2] * dout_i)

\* backward pass 2 & 3: the softmax
AttentionBackwardPass23(st, b, t, h, t2, t3) ==
    LET indicator == IF t2 = t3 THEN 1 ELSE 0
        local_derivative ==
            inp.att[AttRow(b, h, t) + t2] * (indicator - inp.att[AttRow(b, h, t) + t3])
        s1 == Rd(st, Main, "datt", AttRow(b, h, t) + t2)
    IN  AddTo(s1, Main, "dpreatt", AttRow(b, h, t) + t3,
              local_derivative * st.m.datt[AttRow(b, h, t) + t2])

\* backward pass 1 storing the key gradient instead of accumulating it
AttentionBackwardPass1_KeyStored(st, b, t, h, t2, i) ==
    LET scale == AttScale(HeadSize)
        s0 == Rd(st, Main, "dpreatt", AttRow(b, h, t) + t2)
        dp == st.m.dpreatt[AttRow(b, h, t) + t2]
        s1 == AddTo(s0, Main, "dinp", QueryAt(b, t, h) + i,
                    inp.inp[KeyAt(b, t2, h) + i] * dp * scale)
    IN  Wr(s1, Main, "dinp", KeyAt(b, t2, h) + i, inp.inp[QueryAt(b, t, h) + i] * dp * scale)

\* backward pass 1: the query @ key matmul
AttentionBackwardPass1(st, b, t, h, t2, i) ==
    LET scale == AttScale(HeadSize)
        s0 == Rd(st, Main, "dpreatt", AttRow(b, h, t) + t2)
        dp == st.m.dpreatt[AttRow(b, h, t) + t2]
        s1 == AddTo(s0, Main, "dinp", QueryAt(b, t, h) + i,
                    inp.inp[KeyAt(b, t2, h) + i] * dp * scale)
    IN  AddTo(s1, Main, "dinp", KeyAt(b, t2, h) + i,
              inp.inp[QueryAt(b, t, h) + i] * dp * scale)

AttentionBackwardTriple(st, b, t, h) ==
    LET s4 == For2(t + 1, HeadSize,
                   LAMBDA s, t2, i : AttentionBackwardPass4(s, b, t, h, t2, i), st)
        s23 == For2(t + 1, t + 1,
                    LAMBDA s, t2, t3 : AttentionBackwardPass23(s, b, t, h, t2, t3), s4)
    IN  For2(t + 1, HeadSize,
             LAMBDA s, t2, i : AttentionBackwardPass1(s, b, t, h, t2, i), s23)

AttentionBackwardRun(st) == For3(shape.B, shape.T, shape.NH, AttentionBackwardTriple, st)

----------------------------------------------------------------------------
(* matmul_backward: phase A fans out over (b, t), phase B over o.  Each    *)
(* `*p += x` of a worker is a load into a register and a store.            *)

WorkerA(b, t) == <<"A", b, t>>
WorkerB(o) == <<"B", o, 0>>

WorkersA == {WorkerA(b, t) : b \in 0 .. shape.B - 1, t \in 0 .. shape.T - 1}
WorkersB == {WorkerB(o) : o \in 0 .. shape.OC - 1}

\* number of `+=` a phase A worker executes: the loops over o and i
StepsA == shape.OC * shape.C
\* number of loop slots of a phase B worker: per (b, t), the dbias update
\* and the loop over i
StepsB == shape.B * shape.T * (shape.C + 1)

\* phase A, worker (b, t), iteration n = (o, i): the dinp cell and the addend
MatmulBackwardACell(b, t, n) == b * shape.T * shape.C + t * shape.C + (n % shape.C)

\* wrow is taken at weight + o, without the row stride C
MatmulBackwardATerm_NoStride(b, t, n) ==
    LET o == n \div shape.C
        i == n % shape.C
    IN  inp.weight[(o + i + 1) % (shape.OC * shape.C)]
            * inp.dout[b * shape.T * shape.OC + t * shape.OC + o]

MatmulBackwardATerm(b, t, n) ==
    LET o == n \div shape.C
        i == n % shape.C
    IN  inp.weight[o * shape.C + i] * inp.dout[b * shape.T * shape.OC + t * shape.OC + o]

\* phase B, worker o, slot n = (b, t, j): j = 0 is the dbias update,
\* j = i + 1 the dweight update of channel i
MatmulBackwardBBuf(n) == IF n % (shape.C + 1) = 0 THEN "dbias" ELSE "dweight"

\* dwrow is taken at dweight, without the row offset o * C
MatmulBackwardBCell_NoRow(o, n) ==
    IF n % (shape.C + 1) = 0 THEN o ELSE (n % (shape.C + 1)) - 1

MatmulBackwardBCell(o, n) ==
    IF n % (shape.C + 1) = 0 THEN o ELSE o * shape.C + (n % (shape.C + 1)) - 1

\* inp_bt is taken at inp + bt, without the row stride C
MatmulBackwardBTerm_NoStride(o, n) ==
    LET bt == n \div (shape.C + 1)
        j == n % (shape.C + 1)
        d == inp.dout[bt * shape.OC + o]
    IN  IF j = 0 THEN d ELSE inp.inp[bt + (j - 1)] * d

MatmulBackwardBTerm(o, n) ==
    LET bt == n \div (shape.C + 1)
        j == n % (shape.C + 1)
        d == inp.dout[bt * shape.OC + o]
    IN  IF j = 0 THEN d ELSE inp.inp[bt * shape.C + (j - 1)] * d

Idle(o) == op = o /\ pc = "idle" /\ calls < MaxCalls

NewWorker == [k |-> 0, ld |-> FALSE, reg |-> 0]

Frame == UNCHANGED <<op, shape, inp, mem0, fp, saved>>

\* the call returns: the buffers after the first call are recorded
Return(m) ==
    /\ pc' = "idle"
    /\ calls' = calls + 1
    /\ mem1' = IF calls = 0 THEN m ELSE mem1

MatmulBackwardStart ==
    /\ Idle("matmul_backward")
    /\ pc' = "phaseA"
    /\ wk' = [w \in WorkersA \cup WorkersB |-> NewWorker]
    /\ acc' = {}
    /\ UNCHANGED <<mem, mem1, calls>> /\ Frame

MatmulBackwardALoad(b, t) ==
    LET w == WorkerA(b, t)
        cell == MatmulBackwardACell(b, t, wk[w].k)
    IN  /\ pc = "phaseA" /\ wk[w].k < StepsA /\ ~wk[w].ld
        /\ wk' = [wk EXCEPT ![w] = [@ EXCEPT !.ld = TRUE, !.reg = mem.dinp[cell]]]
        /\ acc' = acc \cup {Access(w, "r", "dinp", cell)}
        /\ UNCHANGED <<mem, mem1, calls, pc>> /\ Frame

MatmulBackwardAStore(b, t) ==
    LET w == WorkerA(b, t)
        cell == MatmulBackwardACell(b, t, wk[w].k)
    IN  /\ pc = "phaseA" /\ wk[w].k < StepsA /\ wk[w].ld
        /\ mem' = [mem EXCEPT !.dinp[cell] = wk[w].reg + MatmulBackwardATerm(b, t, wk[w].k)]
        /\ wk' = [wk EXCEPT ![w] = [@ EXCEPT !.ld = FALSE, !.k = @ + 1]]
        /\ acc' = acc \cup {Access(w, "w", "dinp", cell)}
        /\ UNCHANGED <<mem1, calls, pc>> /\ Frame

\* the first for_each returns when all its workers are done
MatmulBackwardJoinA ==
    /\ pc = "phaseA"
    /\ \A w \in WorkersA : wk[w].k = StepsA
    /\ pc' = "phaseB"
    /\ UNCHANGED <<mem, mem1, calls, wk, acc>> /\ Frame

\* `if !dbias_raw.is_null()` with a null dbias: the update is skipped
MatmulBackwardBNull(o) ==
    LET w == WorkerB(o)
    IN  /\ pc = "phaseB" /\ wk[w].k < StepsB
        /\ MatmulBackwardBBuf(wk[w].k) = "dbias" /\ mem.dbias = Null
        /\ wk' = [wk EXCEPT ![w] = [@ EXCEPT !.k = @ + 1]]
        /\ UNCHANGED <<mem, mem1, calls, pc, acc>> /\ Frame

MatmulBackwardBLoad(o) ==
    LET w == WorkerB(o)
        buf == MatmulBackwardBBuf(wk[w].k)
        cell == MatmulBackwardBCell(o, wk[w].k)
    IN  /\ pc = "phaseB" /\ wk[w].k < StepsB /\ ~wk[w].ld
        /\ ~(buf = "dbias" /\ mem.dbias = Null)
        /\ wk' = [wk EXCEPT ![w] = [@ EXCEPT !.ld = TRUE, !.reg = mem[buf][cell]]]
        /\ acc' = acc \cup {Access(w, "r", buf, cell)}
        /\ UNCHANGED <<mem, mem1, calls, pc>> /\ Frame

MatmulBackwardBStore(o) ==
    LET w == WorkerB(o)
        buf == MatmulBackwardBBuf(wk[w].k)
        cell == MatmulBackwardBCell(o, wk[w].k)
    IN  /\ pc = "phaseB" /\ wk[w].k < StepsB /\ wk[w].ld
        /\ mem' = [mem EXCEPT ![buf][cell] = wk[w].reg + MatmulBackwardBTerm(o, wk[w].k)]
        /\ wk' = [wk EXCEPT ![w] = [@ EXCEPT !.ld = FALSE, !.k = @ + 1]]
        /\ acc' = acc \cup {Access(w, "w", buf, cell)}
        /\ UNCHANGED <<mem1, calls, pc>> /\ Frame

\* the second for_each returns when all its workers are done, and the call returns
MatmulBackwardJoinB ==
    /\ pc = "phaseB"
    /\ \A w \in WorkersB : wk[w].k = StepsB
    /\ Return(mem)
    /\ UNCHANGED <<mem, wk, acc>> /\ Frame

matmul_backward ==
    \/ MatmulBackwardStart
    \/ \E b \in 0 .. shape.B - 1, t \in 0 .. shape.T - 1 : MatmulBackwardALoad(b, t)
    \/ \E b \in 0 .. shape.B - 1, t \in 0 .. shape.T - 1 : MatmulBackwardAStore(b, t)
    \/ MatmulBackwardJoinA
    \/ \E o \in 0 .. shape.OC - 1 : MatmulBackwardBNull(o)
    \/ \E o \in 0 .. shape.OC - 1 : MatmulBackwardBLoad(o)
    \/ \E o \in 0 .. shape.OC - 1 : MatmulBackwardBStore(o)
    \/ MatmulBackwardJoinB

\* the same loop bodies run by one thread: phase A in the order (b, t, o, i),
\* then phase B in the order (o, b, t, i)
MatmulBackwardSeq(st) ==
    LET sA == For3(shape.B, shape.T, StepsA,
                   LAMBDA s, b, t, n :
                       AddTo(s, WorkerA(b, t), "dinp",
                             MatmulBackwardACell(b, t, n), MatmulBackwardATerm(b, t, n)),
                   st)
    IN  For2(shape.OC, StepsB,
             LAMBDA s, o, n :
                 IF MatmulBackwardBBuf(n) = "dbias" /\ s.m.dbias = Null THEN s
                 ELSE AddTo(s, WorkerB(o), MatmulBackwardBBuf(n),
                            MatmulBackwardBCell(o, n), MatmulBackwardBTerm(o, n)),
             sA)

----------------------------------------------------------------------------
(* encoder_forward *)

EncoderForwardCell(st, b, t, i) ==
    LET T == shape.T
        C == shape.C
        ix == inp.inp[b * T + t]
    IN  Wr(st, Main, "out", b * T * C + t * C + i, inp.wte[ix * C + i] + inp.wpe[t * C + i])

EncoderForwardRun(st) == For3(shape.B, shape.T, shape.C, EncoderForwardCell, st)

----------------------------------------------------------------------------
(* layernorm_forward: inp, weight and bias in whole units; mean, rstd and  *)
(* out in units of 1/ONE.                                                  *)

\* eps = 1e-5, in units of 1/ONE^2
LayernormEps == 10

LayernormForwardRow(st, b, t) ==
    LET T == shape.T
        C == shape.C
        x == b * T * C + t * C
        m == Quot(SumOf(LAMBDA i : inp.inp[x + i], 0, C) * ONE, C)
        v == Quot(SumOf(LAMBDA i : (inp.inp[x + i] * ONE - m) * (inp.inp[x + i] * ONE - m), 0, C), C)
        s == Quot(ONE * ONE, ISqrt(v + LayernormEps))
        s1 == For(0, C,
                  LAMBDA s0, i :
                      Wr(s0, Main, "out", x + i,
                         Quot(s * (inp.inp[x + i] * ONE - m), ONE) * inp.weight[i]
                         + inp.bias[i] * ONE),
                  st)
        s2 == Wr(s1, Main, "mean", b * T + t, m)
    IN  Wr(s2, Main, "rstd", b * T + t, s)

LayernormForwardRun(st) == For2(shape.B, shape.T, LayernormForwardRow, st)

----------------------------------------------------------------------------
(* gelu_forward: inp in whole units, out in units of 1/ONE. *)

GeluForwardCell(st, i) ==
    LET x == inp.inp[i]
    IN  Wr(st, Main, "out", i, Quot(x * (ONE + TanhFx(GeluTanhArg(x))), 2))

GeluForwardRun(st) == For(0, shape.N, GeluForwardCell, st)

----------------------------------------------------------------------------
(* residual_forward *)

ResidualForwardCell(st, i) == Wr(st, Main, "out", i, inp.inp1[i] + inp.inp2[i])

ResidualForwardRun(st) == For(0, shape.N, ResidualForwardCell, st)

----------------------------------------------------------------------------
(* crossentropy_forward: probs and losses in units of 1/ONE. *)

CrossentropyForwardCell(st, b, t) ==
    LET ix == inp.targets[b * shape.T + t]
    IN  Wr(st, Main, "losses", b * shape.T + t,
           -LnFx(inp.probs[b * shape.T * shape.Vp + t * shape.Vp + ix]))

CrossentropyForwardRun(st) == For2(shape.B, shape.T, CrossentropyForwardCell, st)

----------------------------------------------------------------------------
(* matmul_forward and matmul_forward_naive.  A naive worker (b, t) and an  *)
(* unrolled worker obt make one step per output channel o.                 *)

LOOP_UNROLL == 8

WorkerN(b, t) == <<"N", b, t>>
WorkerU(obt) == <<"U", obt, 0>>

WorkersN == {WorkerN(b, t) : b \in 0 .. shape.B - 1, t \in 0 .. shape.T - 1}

\* (0..B * T).step_by(LOOP_UNROLL)
Blocks == {obt \in 0 .. shape.B * shape.T - 1 : obt % LOOP_UNROLL = 0}

WorkersU == {WorkerU(obt) : obt \in Blocks}

\* `if !bias_raw.is_null() { *bias_raw.add(o) } else { 0.0f32 }`
BiasOrZero(o) == IF inp.bias # Null THEN inp.bias[o] ELSE 0

BiasRead(w, o) == IF inp.bias # Null THEN {Access(w, "r", "bias", o)} ELSE {}

\* matmul_forward_naive reading the weight row without the stride C
MatmulForwardNaiveVal_NoStride(bt, o) ==
    For(0, shape.C,
        LAMBDA r, i :
            [val |-> FAdd(fp, r.val,
                          FMul(fp, inp.inp[bt * shape.C + i],
                               inp.weight[(o + i) % (shape.OC * shape.C)]))],
        [val |-> BiasOrZero(o)]).val

\* the value matmul_forward_naive stores to out[bt, o]
MatmulForwardNaiveVal(bt, o) ==
    For(0, shape.C,
        LAMBDA r, i :
            [val |-> FAdd(fp, r.val,
                          FMul(fp, inp.inp[bt * shape.C + i], inp.weight[o * shape.C + i]))],
        [val |-> BiasOrZero(o)]).val

\* the unrolled block adding the bias after the products
MatmulForwardUnrolledBlock_BiasLast(obt, o) ==
    LET r0 == For2(shape.C, LOOP_UNROLL,
                   LAMBDA r, i, ibt :
                       [r EXCEPT ![ibt] =
                           FAdd(fp, @, FMul(fp, inp.inp[(obt + ibt) * shape.C + i],
                                            inp.weight[i + o * shape.C]))],
                   [ibt \in 0 .. LOOP_UNROLL - 1 |-> 0])
    IN  [ibt \in 0 .. LOOP_UNROLL - 1 |-> FAdd(fp, r0[ibt], BiasOrZero(o))]

\* the array result[0..LOOP_UNROLL) of the block at obt for channel o
MatmulForwardUnrolledBlock(obt, o) ==
    For2(shape.C, LOOP_UNROLL,
         LAMBDA r, i, ibt :
             [r EXCEPT ![ibt] =
                 FAdd(fp, @, FMul(fp, inp.inp[(obt + ibt) * shape.C + i],
                                  inp.weight[i + o * shape.C]))],
         [ibt \in 0 .. LOOP_UNROLL - 1 |-> BiasOrZero(o)])

\* `if (B * T) % LOOP_UNROLL != 0`
MatmulForwardFallback == (shape.B * shape.T) % LOOP_UNROLL # 0

MatmulForwardStart ==
    /\ Idle("matmul_forward")
    /\ pc' = IF MatmulForwardFallback THEN "naive" ELSE "unrolled"
    /\ wk' = IF MatmulForwardFallback THEN [w \in WorkersN |-> NewWorker]
                                      ELSE [w \in WorkersU |-> NewWorker]
    /\ acc' = {}
    /\ UNCHANGED <<mem, mem1, calls>> /\ Frame

MatmulForwardNaiveStep(b, t) ==
    LET w == WorkerN(b, t)
        bt == b * shape.T + t
        o == wk[w].k
    IN  /\ pc = "naive" /\ wk[w].k < shape.OC
        /\ mem' = [mem EXCEPT !.out[bt * shape.OC + o] = MatmulForwardNaiveVal(bt, o)]
        /\ acc' = acc \cup BiasRead(w, o) \cup {Access(w, "w", "out", bt * shape.OC + o)}
        /\ wk' = [wk EXCEPT ![w] = [@ EXCEPT !.k = @ + 1]]
        /\ UNCHANGED <<mem1, calls, pc>> /\ Frame

\* matmul_forward_naive returns, and matmul_forward with it
MatmulForwardNaiveJoin ==
    /\ pc = "naive"
    /\ \A w \in WorkersN : wk[w].k = shape.OC
    /\ Return(mem)
    /\ UNCHANGED <<mem, wk, acc>> /\ Frame

MatmulForwardUnrolledStep(obt) ==
    LET w == WorkerU(obt)
        o == wk[w].k
        result == MatmulForwardUnrolledBlock(obt, o)
        cells == {(obt + ibt) * shape.OC + o : ibt \in 0 .. LOOP_UNROLL - 1}
    IN  /\ pc = "unrolled" /\ wk[w].k < shape.OC
        /\ mem' = [mem EXCEPT !.out =
                      [c \in DOMAIN @ |->
                          IF c \in cells THEN result[(c \div shape.OC) - obt] ELSE @[c]]]
        /\ acc' = acc \cup BiasRead(w, o) \cup {Access(w, "w", "out", c) : c \in cells}
        /\ wk' = [wk EXCEPT ![w] = [@ EXCEPT !.k = @ + 1]]
        /\ UNCHANGED <<mem1, calls, pc>> /\ Frame

MatmulForwardUnrolledJoin ==
    /\ pc = "unrolled"
    /\ \A w \in WorkersU : wk[w].k = shape.OC
    /\ Return(mem)
    /\ UNCHANGED <<mem, wk, acc>> /\ Frame

matmul_forward ==
    \/ MatmulForwardStart
    \/ \E b \in 0 .. shape.B - 1, t \in 0 .. shape.T - 1 : MatmulForwardNaiveStep(b, t)
    \/ MatmulForwardNaiveJoin
    \/ \E obt \in Blocks : MatmulForwardUnrolledStep(obt)
    \/ MatmulForwardUnrolledJoin

----------------------------------------------------------------------------
(* attention_forward: one worker per (b, t, h); a worker step is one of    *)
(* its four passes.  inp is in whole units; preatt, att and out are in     *)
(* units of 1/ONE.  A worker keeps maxval and expsum between passes.       *)

WorkerW(b, t, h) == <<"W", b, t, h>>

WorkersW ==
    {WorkerW(b, t, h) : b \in 0 .. shape.B - 1, t \in 0 .. shape.T - 1, h \in 0 .. shape.NH - 1}

Locals == [maxval |-> NegInf, expsum |-> 0]

\* pass 1: calculate query dot key and maxval
AttentionForwardPass1(st, b, t, h, t2) ==
    LET val == SumOf(LAMBDA i : inp.inp[QueryAt(b, t, h) + i] * inp.inp[KeyAt(b, t2, h) + i],
                     0, HeadSize) * AttScale(HeadSize)
        s1 == [st EXCEPT !.x.maxval = IF val > @ THEN val ELSE @]
    IN  Wr(s1, WorkerW(b, t, h), "preatt", AttRow(b, h, t) + t2, val)

\* pass 2: calculate the exp and keep track of sum
AttentionForwardPass2(st, b, t, h, t2) ==
    LET s0 == Rd(st, WorkerW(b, t, h), "preatt", AttRow(b, h, t) + t2)
        expv == ExpFx(st.m.preatt[AttRow(b, h, t) + t2] - st.x.maxval)
        s1 == [s0 EXCEPT !.x.expsum = @ + expv]
    IN  Wr(s1, WorkerW(b, t, h), "att", AttRow(b, h, t) + t2, expv)

\* pass 3 without the branch that zeroes the cells after t
AttentionForwardPass3_NoMask(st, b, t, h, t2) ==
    LET expsum_inv == IF st.x.expsum = 0 THEN 0 ELSE Quot(ONE * ONE, st.x.expsum)
        w == WorkerW(b, t, h)
        c == AttRow(b, h, t) + t2
    IN  IF t2 <= t THEN Wr(Rd(st, w, "att", c), w, "att", c, Quot(st.m.att[c] * expsum_inv, ONE))
        ELSE st

\* pass 3: normalize to get the softmax
AttentionForwardPass3(st, b, t, h, t2) ==
    LET expsum_inv == IF st.x.expsum = 0 THEN 0 ELSE Quot(ONE * ONE, st.x.expsum)
        w == WorkerW(b, t, h)
        c == AttRow(b, h, t) + t2
    IN  IF t2 <= t THEN Wr(Rd(st, w, "att", c), w, "att", c, Quot(st.m.att[c] * expsum_inv, ONE))
        ELSE Wr(st, w, "att", c, 0)

\* pass 4 without the zeroing of out[b, t, h * hs ..]
AttentionForwardPass4_NoZero(st, b, t, h) ==
    LET w == WorkerW(b, t, h)
    IN  For2(t + 1, HeadSize,
             LAMBDA s, t2, i :
                 AddTo(Rd(s, w, "att", AttRow(b, h, t) + t2), w, "out", OutAt(b, t, h) + i,
                       s.m.att[AttRow(b, h, t) + t2] * inp.inp[ValueAt(b, t2, h) + i]),
             st)

\* pass 4: accumulate weighted values into the output of attention
AttentionForwardPass4(st, b, t, h) ==
    LET w == WorkerW(b, t, h)
        s0 == For(0, HeadSize, LAMBDA s, i : Wr(s, w, "out", OutAt(b, t, h) + i, 0), st)
    IN  For2(t + 1, HeadSize,
             LAMBDA s, t2, i :
                 AddTo(Rd(s, w, "att", AttRow(b, h, t) + t2), w, "out", OutAt(b, t, h) + i,
                       s.m.att[AttRow(b, h, t) + t2] * inp.inp[ValueAt(b, t2, h) + i]),
             s0)

\* the passes with the score and the exp loops running over all T positions
AttentionForwardPass_NoCausal(k, st, b, t, h) ==
    CASE k = 0 -> For(0, shape.T, LAMBDA s, t2 : AttentionForwardPass1(s, b, t, h, t2), st)
      [] k = 1 -> For(0, shape.T, LAMBDA s, t2 : AttentionForwardPass2(s, b, t, h, t2), st)
      [] k = 2 -> For(0, shape.T, LAMBDA s, t2 : AttentionForwardPass3(s, b, t, h, t2), st)
      [] OTHER -> AttentionForwardPass4(st, b, t, h)

\* pass k of worker (b, t, h)
AttentionForwardPass(k, st, b, t, h) ==
    CASE k = 0 -> For(0, t + 1, LAMBDA s, t2 : AttentionForwardPass1(s, b, t, h, t2), st)
      [] k = 1 -> For(0, t + 1, LAMBDA s, t2 : AttentionForwardPass2(s, b, t, h, t2), st)
      [] k = 2 -> For(0, shape.T, LAMBDA s, t2 : AttentionForwardPass3(s, b, t, h, t2), st)
      [] OTHER -> AttentionForwardPass4(st, b, t, h)

AttentionForwardStart ==
    /\ Idle("attention_forward")
    /\ pc' = "par"
    /\ wk' = [w \in WorkersW |-> [k |-> 0, ld |-> FALSE, reg |-> Locals]]
    /\ acc' = {}
    /\ UNCHANGED <<mem, mem1, calls>> /\ Frame

AttentionForwardStep(b, t, h) ==
    LET w == WorkerW(b, t, h)
        r == AttentionForwardPass(wk[w].k, [m |-> mem, a |-> acc, x |-> wk[w].reg], b, t, h)
    IN  /\ op = "attention_forward" /\ pc = "par" /\ wk[w].k < 4
        /\ mem' = r.m
        /\ acc' = r.a
        /\ wk' = [wk EXCEPT ![w] = [@ EXCEPT !.k = @ + 1, !.reg = r.x]]
        /\ UNCHANGED <<mem1, calls, pc>> /\ Frame

AttentionForwardJoin ==
    /\ op = "attention_forward" /\ pc = "par"
    /\ \A w \in WorkersW : wk[w].k = 4
    /\ Return(mem)
    /\ UNCHANGED <<mem, wk, acc>> /\ Frame

attention_forward ==
    \/ AttentionForwardStart
    \/ \E b \in 0 .. shape.B - 1, t \in 0 .. shape.T - 1, h \in 0 .. shape.NH - 1 :
        AttentionForwardStep(b, t, h)
    \/ AttentionForwardJoin

\* the triples run one after the other in the order (b, t, h)
AttentionForwardTriple(st, b, t, h) ==
    LET s1 == AttentionForwardPass(0, [st EXCEPT !.x = Locals], b, t, h)
        s2 == AttentionForwardPass(1, s1, b, t, h)
        s3 == AttentionForwardPass(2, s2, b, t, h)
    IN  AttentionForwardPass(3, s3, b, t, h)

AttentionForwardSeq(m) ==
    For3(shape.B, shape.T, shape.NH, AttentionForwardTriple, [m |-> m, a |-> {}, x |-> Locals]).m

----------------------------------------------------------------------------
(* softmax_forward: one worker per (b, t); a worker step is the max/exp    *)
(* pass, the normalisation or the zeroing of the padding.  logits are in   *)
(* whole units, probs in units of 1/ONE.                                   *)

WorkerS(b, t) == <<"S", b, t>>

WorkersS == {WorkerS(b, t) : b \in 0 .. shape.B - 1, t \in 0 .. shape.T - 1}

RowAt(b, t) == b * shape.T * shape.Vp + t * shape.Vp

\* maxval over the first V logits of the row
SoftmaxMaxval(b, t) ==
    For(0, shape.V,
        LAMBDA r, i : [val |-> IF inp.logits[RowAt(b, t) + i] > r.val
                               THEN inp.logits[RowAt(b, t) + i] ELSE r.val],
        [val |-> NegInf]).val

\* softmax numerator and denominator (sum)
SoftmaxExp(st, b, t, i) ==
    LET exp_val == ExpFx((inp.logits[RowAt(b, t) + i] - SoftmaxMaxval(b, t)) * ONE)
        s1 == [st EXCEPT !.x = @ + exp_val]
    IN  Wr(s1, WorkerS(b, t), "probs", RowAt(b, t) + i, exp_val)

\* normalize the probabilities
SoftmaxNormalize(st, b, t, i) ==
    LET w == WorkerS(b, t)
        c == RowAt(b, t) + i
    IN  Wr(Rd(st, w, "probs", c), w, "probs", c, Quot(st.m.probs[c] * ONE, st.x))

\* set padded dimensions to zero
SoftmaxPad(st, b, t, i) == Wr(st, WorkerS(b, t), "probs", RowAt(b, t) + i, 0)

\* the passes with the numerator loop running over the padded row
SoftmaxForwardPass_SumToVp(k, st, b, t) ==
    CASE k = 0 -> For(0, shape.Vp, LAMBDA s, i : SoftmaxExp(s, b, t, i), st)
      [] k = 1 -> For(0, shape.V, LAMBDA s, i : SoftmaxNormalize(s, b, t, i), st)
      [] OTHER -> For(shape.V, shape.Vp, LAMBDA s, i : SoftmaxPad(s, b, t, i), st)

SoftmaxForwardPass(k, st, b, t) ==
    CASE k = 0 -> For(0, shape.V, LAMBDA s, i : SoftmaxExp(s, b, t, i), st)
      [] k = 1 -> For(0, shape.V, LAMBDA s, i : SoftmaxNormalize(s, b, t, i), st)
      [] OTHER -> For(shape.V, shape.Vp, LAMBDA s, i : SoftmaxPad(s, b, t, i), st)

SoftmaxForwardStart ==
    /\ Idle("softmax_forward")
    /\ pc' = "par"
    /\ wk' = [w \in WorkersS |-> NewWorker]
    /\ acc' = {}
    /\ UNCHANGED <<mem, mem1, calls>> /\ Frame

SoftmaxForwardStep(b, t) ==
    LET w == WorkerS(b, t)
        r == SoftmaxForwardPass(wk[w].k, [m |-> mem, a |-> acc, x |-> wk[w].reg], b, t)
    IN  /\ op = "softmax_forward" /\ pc = "par" /\ wk[w].k < 3
        /\ mem' = r.m
        /\ acc' = r.a
        /\ wk' = [wk EXCEPT ![w] = [@ EXCEPT !.k = @ + 1, !.reg = r.x]]
        /\ UNCHANGED <<mem1, calls, pc>> /\ Frame

SoftmaxForwardJoin ==
    /\ op = "softmax_forward" /\ pc = "par"
    /\ \A w \in WorkersS : wk[w].k = 3
    /\ Return(mem)
    /\ UNCHANGED <<mem, wk, acc>> /\ Frame

softmax_forward ==
    \/ SoftmaxForwardStart
    \/ \E b \in 0 .. shape.B - 1, t \in 0 .. shape.T - 1 : SoftmaxForwardStep(b, t)
    \/ SoftmaxForwardJoin

----------------------------------------------------------------------------
(* Calls of the sequential primitives. *)

\* a sequential primitive runs to completion on the current buffers
CallSeq(r) ==
    /\ mem' = r.m
    /\ acc' = r.a
    /\ Return(r.m)
    /\ UNCHANGED wk /\ Frame

Entry == [m |-> mem, a |-> {}]

encoder_backward == Idle("encoder_backward") /\ CallSeq(EncoderBackwardRun(Entry))

layernorm_backward == Idle("layernorm_backward") /\ CallSeq(LayernormBackwardRun(Entry))

attention_backward == Idle("attention_backward") /\ CallSeq(AttentionBackwardRun(Entry))

gelu_backward == Idle("gelu_backward") /\ CallSeq(GeluBackwardRun(Entry))

residual_backward == Idle("residual_backward") /\ CallSeq(ResidualBackwardRun(Entry))

crossentropy_softmax_backward ==
    Idle("crossentropy_softmax_backward") /\ CallSeq(CrossentropySoftmaxBackwardRun(Entry))

encoder_forward == Idle("encoder_forward") /\ CallSeq(EncoderForwardRun(Entry))

layernorm_forward == Idle("layernorm_forward") /\ CallSeq(LayernormForwardRun(Entry))

gelu_forward == Idle("gelu_forward") /\ CallSeq(GeluForwardRun(Entry))

residual_forward == Idle("residual_forward") /\ CallSeq(ResidualForwardRun(Entry))

crossentropy_forward == Idle("crossentropy_forward") /\ CallSeq(CrossentropyForwardRun(Entry))

----------------------------------------------------------------------------
(* The caller after the first call: it owns the argument buffers and may   *)
(* rewrite the read-only ones before calling again.                        *)

Between == pc = "idle" /\ calls = 1 /\ inp = saved

Rewrite(new) ==
    /\ inp' = new
    /\ UNCHANGED <<op, shape, mem, mem0, mem1, calls, pc, wk, acc, fp, saved>>

\* the caller rewrites logits, keeping the first V cells of row (b, t)
RewriteLogits ==
    /\ op = "softmax_forward" /\ Between
    /\ \E q \in Pats(shape.B * shape.T * shape.Vp) :
       \E b \in 0 .. shape.B - 1, t \in 0 .. shape.T - 1 :
           Rewrite([inp EXCEPT !.logits =
                       [c \in DOMAIN @ |->
                           IF c \in RowAt(b, t) .. RowAt(b, t) + shape.V - 1
                           THEN @[c] ELSE q[c]]])

\* the cells of the fused qkv input in the query slice of (b, t, h) and in
\* the key and value slices of (b, t2, h) for t2 <= t
Slices(b, t, h) ==
    {QueryAt(b, t, h) + i : i \in 0 .. HeadSize - 1}
    \cup UNION {{KeyAt(b, t2, h) + i, ValueAt(b, t2, h) + i} :
                t2 \in 0 .. t, i \in 0 .. HeadSize - 1}

\* the cells of the fused qkv input at the positions 0..t of batch b
Prefix(b, t) == UNION {Slices(b, u, h) : u \in 0 .. t, h \in 0 .. shape.NH - 1}

\* the caller rewrites the qkv input, keeping the positions 0..t of a batch
\* or only the slices of one (b, t, h)
RewriteQkv ==
    /\ op = "attention_forward" /\ Between
    /\ \E q \in Pats(shape.B * shape.T * 3 * shape.C) :
       \E b \in 0 .. shape.B - 1, t \in 0 .. shape.T - 1 :
       \E keep \in {Prefix(b, t)} \cup {Slices(b, t, h) : h \in 0 .. shape.NH - 1} :
           Rewrite([inp EXCEPT !.inp = [c \in DOMAIN @ |-> IF c \in keep THEN @[c] ELSE q[c]]])

\* the backward primitive of a forward primitive
BackwardOf(o) == IF o = "matmul_forward" THEN "matmul_backward" ELSE "residual_backward"

ForwardOf(o) == IF o = "matmul_backward" THEN "matmul_forward" ELSE "residual_forward"

\* after the forward call the caller turns to the backward primitive
CallBackward ==
    /\ op \in {"matmul_forward", "residual_forward"}
    /\ pc = "idle" /\ calls = 1 /\ "dout" \in DOMAIN inp
    /\ op' = BackwardOf(op)
    /\ UNCHANGED <<shape, inp, mem, mem0, mem1, calls, pc, wk, acc, fp, saved>>

\* the input plus a perturbation d (and e for the second input of residual)
Perturbed(d, e) ==
    IF op = "matmul_backward"
    THEN [inp EXCEPT !.inp = [c \in DOMAIN @ |-> @[c] + d[c]]]
    ELSE [inp EXCEPT !.inp1 = [c \in DOMAIN @ |-> @[c] + d[c]],
                     !.inp2 = [c \in DOMAIN @ |-> @[c] + e[c]]]

\* after the backward call the caller perturbs the input and turns to the
\* forward primitive again
PerturbInput ==
    /\ op \in {"matmul_backward", "residual_backward"}
    /\ pc = "idle" /\ calls = 2 /\ inp = saved
    /\ \E d, e \in Pats(IF op = "matmul_backward" THEN shape.B * shape.T * shape.C
                        ELSE shape.N) :
        inp' = Perturbed(d, e)
    /\ op' = ForwardOf(op)
    /\ UNCHANGED <<shape, mem, mem0, mem1, calls, pc, wk, acc, fp, saved>>

----------------------------------------------------------------------------
(* Initial states: a primitive, a shape, argument buffers. *)

\* prior contents of a gradient buffer: zeroed, or one of the patterns
GradPats(n) == {Zeros(n)} \cup Pats(n)

\* probabilities in units of 1/ONE
ProbPats(n) == {[i \in 0 .. n - 1 |-> 100 * ((k + (k + 1) * i) % 5)] : k \in 0 .. MaxPat - 1}

InitCallFp(o, sh, i, m, md) ==
    /\ op = o /\ shape = sh /\ inp = i
    /\ mem = m /\ mem0 = m /\ mem1 = m
    /\ calls = 0 /\ pc = "idle" /\ wk = <<>> /\ acc = {}
    /\ fp = md /\ saved = i

InitCall(o, sh, i, m) == InitCallFp(o, sh, i, m, "exact")

\* B, T, C and the number V of rows of wte; no position holds the last token id
EncoderShapes == {Shp(b, t, c, 1, 1, 4, 4, 1) : b \in 1 .. 2, t \in 1 .. 2, c \in 1 .. 2}

InitEncoderBackward ==
    \E sh \in EncoderShapes :
    \E i \in [dout : Pats(sh.B * sh.T * sh.C), inp : IdPats(sh.B * sh.T, sh.V - 1)] :
    \E m \in [dwte : GradPats(sh.V * sh.C), dwpe : GradPats(sh.T * sh.C)] :
        InitCall("encoder_backward", sh, i, m)

LayernormShapes ==
    {Shp(1, 1, 2, 1, 1, 1, 1, 1), Shp(1, 2, 2, 1, 1, 1, 1, 1), Shp(2, 1, 1, 1, 1, 1, 1, 1)}

InitLayernormBackward ==
    \E sh \in LayernormShapes :
    \E i \in [dout : Pats(sh.B * sh.T * sh.C), inp : Pats(sh.B * sh.T * sh.C),
              weight : Pats(sh.C), mean : Pats(sh.B * sh.T), rstd : Pats(sh.B * sh.T)] :
    \E g \in GradPats(sh.B * sh.T * sh.C + 2 * sh.C) :
        InitCall("layernorm_backward", sh, i,
                 [dinp |-> [j \in 0 .. sh.B * sh.T * sh.C - 1 |-> g[j]],
                  dweight |-> [j \in 0 .. sh.C - 1 |-> g[sh.B * sh.T * sh.C + j]],
                  dbias |-> [j \in 0 .. sh.C - 1 |-> g[sh.B * sh.T * sh.C + sh.C + j]]])

\* B, T, C, NH with C divisible by NH
AttentionShapes ==
    {Shp(1, 2, 2, 1, 1, 1, 1, 1), Shp(1, 2, 2, 1, 2, 1, 1, 1), Shp(2, 2, 2, 1, 1, 1, 1, 1)}

AttSize(sh) == sh.B * sh.NH * sh.T * sh.T

InitAttentionBackward ==
    \E sh \in AttentionShapes :
    \E i \in [dout : Pats(sh.B * sh.T * sh.C), inp : Pats(sh.B * sh.T * 3 * sh.C),
              att : Pats(AttSize(sh))] :
    \E m \in [dinp : GradPats(sh.B * sh.T * 3 * sh.C), dpreatt : GradPats(AttSize(sh)),
              datt : GradPats(AttSize(sh))] :
        InitCall("attention_backward", sh, i, m)

FlatShapes == {Shp(1, 1, 1, 1, 1, 1, 1, n) : n \in 1 .. 3}

InitGeluBackward ==
    \E sh \in FlatShapes :
    \E i \in [inp : Pats(sh.N), dout : Pats(sh.N)] :
    \E m \in [dinp : GradPats(sh.N)] :
        InitCall("gelu_backward", sh, i, m)

InitResidualBackward ==
    \E sh \in FlatShapes :
    \E i \in [dout : Pats(sh.N)] :
    \E m \in [dinp1 : GradPats(sh.N), dinp2 : GradPats(sh.N)] :
        InitCall("residual_backward", sh, i, m)

\* B, T, V, Vp with Vp >= V
VocabShapes ==
    {Shp(b, t, 1, 1, 1, v, vp, 1) : b \in 1 .. 2, t \in 1 .. 2, v \in 2 .. 3, vp \in 3 .. 4}

\* probabilities whose rows sum to ONE over their first V cells: cell V - 1
\* of a row holds what the cells before it leave
NormProbPats(sh) ==
    {[c \in DOMAIN p |->
        IF c % sh.Vp = sh.V - 1
        THEN ONE - SumOf(LAMBDA i : p[c - (sh.V - 1) + i], 0, sh.V - 1)
        ELSE p[c]] : p \in ProbPats(sh.B * sh.T * sh.Vp)}

InitCrossentropySoftmaxBackward ==
    \E sh \in VocabShapes :
    \E i \in [dlosses : Pats(sh.B * sh.T),
              probs : ProbPats(sh.B * sh.T * sh.Vp) \cup NormProbPats(sh),
              targets : IdPats(sh.B * sh.T, sh.V)] :
    \E m \in [dlogits : GradPats(sh.B * sh.T * sh.Vp)] :
        InitCall("crossentropy_softmax_backward", sh, i, m)

\* B, T, C, OC
MatmulBackwardShapes == {Shp(1, 2, 1, 2, 1, 1, 1, 1), Shp(2, 1, 2, 1, 1, 1, 1, 1)}

\* dbias is a null pointer or a buffer of OC cells
InitMatmulBackward ==
    \E sh \in MatmulBackwardShapes :
    \E i \in [dout : Pats(sh.B * sh.T * sh.OC), inp : Pats(sh.B * sh.T * sh.C),
              weight : Pats(sh.OC * sh.C)] :
    \E g \in GradPats(sh.B * sh.T * sh.C + sh.OC * sh.C + sh.OC) :
    \E db \in {Null, [o \in 0 .. sh.OC - 1 |-> g[sh.B * sh.T * sh.C + sh.OC * sh.C + o]]} :
        InitCall("matmul_backward", sh, i,
                 [dinp |-> [j \in 0 .. sh.B * sh.T * sh.C - 1 |-> g[j]],
                  dweight |-> [j \in 0 .. sh.OC * sh.C - 1 |-> g[sh.B * sh.T * sh.C + j]],
                  dbias |-> db])

InitEncoderForward ==
    \E sh \in EncoderShapes :
    \E i \in [inp : IdPats(sh.B * sh.T, sh.V - 1), wte : Pats(sh.V * sh.C),
              wpe : Pats(sh.T * sh.C)] :
    \E m \in [out : Pats(sh.B * sh.T * sh.C)] :
        InitCall("encoder_forward", sh, i, m)

InitLayernormForward ==
    \E sh \in LayernormShapes :
    \E i \in [inp : Pats(sh.B * sh.T * sh.C), weight : Pats(sh.C), bias : Pats(sh.C)] :
    \E m \in [out : Pats(sh.B * sh.T * sh.C), mean : Pats(sh.B * sh.T),
              rstd : Pats(sh.B * sh.T)] :
        InitCall("layernorm_forward", sh, i, m)

\* B, T, C, OC: B * T is 2 or 3 (naive), 8 (one block) or 16 (two blocks)
MatmulForwardShapes ==
    {Shp(1, 2, 2, 2, 1, 1, 1, 1), Shp(3, 1, 1, 2, 1, 1, 1, 1),
     Shp(2, 4, 2, 2, 1, 1, 1, 1), Shp(2, 8, 2, 1, 1, 1, 1, 1)}

\* bias is a null pointer or a buffer of OC cells
InitMatmulForward ==
    \E sh \in MatmulForwardShapes :
    \E i \in [inp : Pats(sh.B * sh.T * sh.C), weight : Pats(sh.OC * sh.C),
              bias : {Null} \cup Pats(sh.OC)] :
    \E m \in [out : Pats(sh.B * sh.T * sh.OC)] :
    \E md \in {"exact", "round"} :
        InitCallFp("matmul_forward", sh, i, m, md)

InitAttentionForward ==
    \E sh \in AttentionShapes :
    \E i \in [inp : Pats(sh.B * sh.T * 3 * sh.C)] :
    \E g \in 0 .. MaxPat - 1 :
        InitCall("attention_forward", sh, i,
                 [out |-> Pat(g, sh.B * sh.T * sh.C), preatt |-> Pat(g, AttSize(sh)),
                  att |-> Pat(g, AttSize(sh))])

InitGeluForward ==
    \E sh \in FlatShapes :
    \E i \in [inp : Pats(sh.N)] :
    \E m \in [out : Pats(sh.N)] :
        InitCall("gelu_forward", sh, i, m)

InitResidualForward ==
    \E sh \in FlatShapes :
    \E i \in [inp1 : Pats(sh.N), inp2 : Pats(sh.N)] :
    \E m \in [out : Pats(sh.N)] :
        InitCall("residual_forward", sh, i, m)

InitSoftmaxForward ==
    \E sh \in VocabShapes :
    \E i \in [logits : Pats(sh.B * sh.T * sh.Vp)] :
    \E m \in [probs : Pats(sh.B * sh.T * sh.Vp)] :
        InitCall("softmax_forward", sh, i, m)

InitCrossentropyForward ==
    \E sh \in VocabShapes :
    \E i \in [probs : ProbPats(sh.B * sh.T * sh.Vp), targets : IdPats(sh.B * sh.T, sh.V)] :
    \E m \in [losses : Pats(sh.B * sh.T)] :
        InitCall("crossentropy_forward", sh, i, m)

InitForward ==
    \/ InitEncoderForward
    \/ InitLayernormForward
    \/ InitMatmulForward
    \/ InitAttentionForward
    \/ InitGeluForward
    \/ InitResidualForward
    \/ InitSoftmaxForward
    \/ InitCrossentropyForward

NextForward ==
    \/ encoder_forward
    \/ layernorm_forward
    \/ matmul_forward
    \/ attention_forward
    \/ gelu_forward
    \/ residual_forward
    \/ softmax_forward
    \/ crossentropy_forward

SpecForward == InitForward /\ [][NextForward]_vars

\* B, T, C, OC: B * T = 2 (naive path) or 8 (unrolled path)
GradientShapes == {Shp(1, 2, 2, 1, 1, 1, 1, 1), Shp(2, 4, 1, 1, 1, 1, 1, 1)}

\* a forward call, the backward call on zeroed gradients with dout = g, and
\* a forward call on the perturbed input
InitMatmulGradient ==
    \E sh \in GradientShapes :
    \E k \in 0 .. MaxPat - 1 :
    \E bias \in {Null, Pat(k, sh.OC)} :
        InitCall("matmul_forward", sh,
                 [inp |-> Pat(k, sh.B * sh.T * sh.C), weight |-> Pat(k + 1, sh.OC * sh.C),
                  bias |-> bias, dout |-> Pat(k + 2, sh.B * sh.T * sh.OC)],
                 [out |-> Pat(k, sh.B * sh.T * sh.OC),
                  dinp |-> Zeros(sh.B * sh.T * sh.C), dweight |-> Zeros(sh.OC * sh.C),
                  dbias |-> IF bias = Null THEN Null ELSE Zeros(sh.OC)])

InitResidualGradient ==
    \E sh \in FlatShapes :
    \E i \in [inp1 : Pats(sh.N), inp2 : Pats(sh.N), dout : Pats(sh.N)] :
        InitCall("residual_forward", sh, i,
                 [out |-> Pat(0, sh.N), dinp1 |-> Zeros(sh.N), dinp2 |-> Zeros(sh.N)])

\* B, T, V, Vp with Vp > V
PaddedShapes ==
    {Shp(1, 2, 1, 1, 1, 2, 3, 1), Shp(2, 1, 1, 1, 1, 3, 4, 1), Shp(2, 2, 1, 1, 1, 2, 4, 1)}

\* softmax_forward on padded rows, probs holding a pattern
InitSoftmaxRewrite ==
    \E sh \in PaddedShapes :
    \E k \in 0 .. MaxPat - 1 :
        InitCall("softmax_forward", sh, [logits |-> Pat(k, sh.B * sh.T * sh.Vp)],
                 [probs |-> Pat(k + 1, sh.B * sh.T * sh.Vp)])

\* attention_forward, its output buffers holding a pattern
InitAttentionRewrite ==
    \E sh \in AttentionShapes :
    \E k \in 0 .. MaxPat - 1 :
        InitCall("attention_forward", sh, [inp |-> Pat(k, sh.B * sh.T * 3 * sh.C)],
                 [out |-> Pat(k, sh.B * sh.T * sh.C), preatt |-> Pat(k, AttSize(sh)),
                  att |-> Pat(k, AttSize(sh))])

\* the primitives called again after the caller rewrote their inputs
InitDriver ==
    \/ InitSoftmaxRewrite
    \/ InitAttentionRewrite
    \/ InitMatmulGradient
    \/ InitResidualGradient

NextDriver ==
    \/ softmax_forward
    \/ RewriteLogits
    \/ attention_forward
    \/ RewriteQkv
    \/ matmul_forward
    \/ matmul_backward
    \/ residual_forward
    \/ residual_backward
    \/ CallBackward
    \/ PerturbInput

SpecDriver == InitDriver /\ [][NextDriver]_vars

InitBackward ==
    \/ InitEncoderBackward
    \/ InitLayernormBackward
    \/ InitMatmulBackward
    \/ InitAttentionBackward
    \/ InitGeluBackward
    \/ InitResidualBackward
    \/ InitCrossentropySoftmaxBackward

NextBackward ==
    \/ encoder_backward
    \/ layernorm_backward
    \/ matmul_backward
    \/ attention_backward
    \/ gelu_backward
    \/ residual_backward
    \/ crossentropy_softmax_backward

SpecBackward == InitBackward /\ [][NextBackward]_vars

----------------------------------------------------------------------------
(* Claims about the backward primitives. *)

Returned == pc = "idle" /\ calls >= 1

\* cell i of buffer b holds its initial value plus `calls` times what the
\* first call added to it
Accumulated(b, i) == mem[b][i] = mem0[b][i] + calls * (mem1[b][i] - mem0[b][i])

\* the cells of the value slice of the fused qkv gradient
ValueSlice == {i \in DOMAIN mem.dinp : i % (3 * shape.C) >= 2 * shape.C}

\* C1 as stated: after two successive calls of any backward primitive with
\* the same inputs, every gradient cell holds its initial value plus twice
\* what a single call added.
C1_Original ==
    (pc = "idle" /\ calls = 2) =>
        \A b \in DOMAIN mem : \A i \in DOMAIN mem[b] : Accumulated(b, i)

\* C1 as amended: the doubling holds for every gradient cell of every
\* backward primitive except attention_backward, and in attention_backward
\* for datt and the value slice of dinp.
C1_Additive ==
    pc = "idle" =>
        IF op = "attention_backward"
        THEN /\ \A i \in DOMAIN mem.datt : Accumulated("datt", i)
             /\ \A i \in ValueSlice : Accumulated("dinp", i)
        ELSE \A b \in DOMAIN mem : \A i \in DOMAIN mem[b] : Accumulated(b, i)

C1_Witness ==
    /\ op = "attention_backward" /\ pc = "idle" /\ calls = 2
    /\ \E i \in ValueSlice : mem0.dinp[i] # 0 /\ mem1.dinp[i] # mem0.dinp[i]
    /\ \E i \in DOMAIN mem.datt : mem0.datt[i] # 0 /\ mem1.datt[i] # mem0.datt[i]

\* C9: encoder_backward adds to dwte[v, i] the sum of dout[b, t, i] over
\* the positions holding token v, and to dwpe[t, i] the sum over b of
\* dout[b, t, i].
C9_EncoderBackwardSums ==
    (op = "encoder_backward" /\ Returned) =>
        /\ \A v \in 0 .. shape.V - 1 : \A i \in 0 .. shape.C - 1 :
            mem1.dwte[v * shape.C + i] = mem0.dwte[v * shape.C + i]
                + SumOf(LAMBDA bt : IF inp.inp[bt] = v THEN inp.dout[bt * shape.C + i] ELSE 0,
                        0, shape.B * shape.T)
        /\ \A t \in 0 .. shape.T - 1 : \A i \in 0 .. shape.C - 1 :
            mem1.dwpe[t * shape.C + i] = mem0.dwpe[t * shape.C + i]
                + SumOf(LAMBDA b : inp.dout[(b * shape.T + t) * shape.C + i], 0, shape.B)

\* a token id held by two positions with non-zero dout, and one held by none
C9_Witness ==
    /\ op = "encoder_backward" /\ Returned
    /\ \E p, q \in DOMAIN inp.inp :
        p # q /\ inp.inp[p] = inp.inp[q]
        /\ inp.dout[p * shape.C] # 0 /\ inp.dout[q * shape.C] # 0
    /\ \E v \in 0 .. shape.V - 1 : \A p \in DOMAIN inp.inp : inp.inp[p] # v

\* C10: crossentropy_softmax_backward adds (probs - [i = target]) * dloss
\* to dlogits[b, t, i] for i < V, and neither reads nor writes the cells
\* with i in V..Vp-1, which keep their contents.
C10_PaddingUntouched ==
    (op = "crossentropy_softmax_backward" /\ Returned) =>
        \A bt \in 0 .. shape.B * shape.T - 1 : \A i \in 0 .. shape.Vp - 1 :
            LET c == bt * shape.Vp + i
            IN  IF i < shape.V
                THEN mem1.dlogits[c] = mem0.dlogits[c]
                        + (inp.probs[c] - (IF i = inp.targets[bt] THEN ONE ELSE 0))
                          * inp.dlosses[bt]
                ELSE /\ mem1.dlogits[c] = mem0.dlogits[c]
                     /\ \A e \in acc : ~(e.b = "dlogits" /\ e.i = c)

C10_Witness ==
    /\ op = "crossentropy_softmax_backward" /\ Returned
    /\ shape.Vp > shape.V
    /\ \E bt \in 0 .. shape.B * shape.T - 1 :
        /\ inp.dlosses[bt] # 0
        /\ mem0.dlogits[bt * shape.Vp + shape.V] # 0
        /\ inp.probs[bt * shape.Vp + shape.V] # 0

\* C5: matmul_backward adds to dinp[b,t,i] the sum over o of
\* W[o,i] * dout[b,t,o], to dweight[o,i] the sum over (b,t) of
\* inp[b,t,i] * dout[b,t,o] and, dbias being non-null, to dbias[o] the sum
\* over (b,t) of dout[b,t,o]; a null dbias is neither read nor written and
\* dinp and dweight get the same sums.
C5_MatmulBackwardSums ==
    op = "matmul_backward" =>
        /\ mem.dbias = Null => \A e \in acc : e.b # "dbias"
        /\ Returned =>
            /\ \A bt \in 0 .. shape.B * shape.T - 1 : \A i \in 0 .. shape.C - 1 :
                mem1.dinp[bt * shape.C + i] = mem0.dinp[bt * shape.C + i]
                    + SumOf(LAMBDA o : inp.weight[o * shape.C + i] * inp.dout[bt * shape.OC + o],
                            0, shape.OC)
            /\ \A o \in 0 .. shape.OC - 1 : \A i \in 0 .. shape.C - 1 :
                mem1.dweight[o * shape.C + i] = mem0.dweight[o * shape.C + i]
                    + SumOf(LAMBDA bt : inp.inp[bt * shape.C + i] * inp.dout[bt * shape.OC + o],
                            0, shape.B * shape.T)
            /\ \A o \in DOMAIN mem.dbias :
                mem1.dbias[o] = mem0.dbias[o]
                    + SumOf(LAMBDA bt : inp.dout[bt * shape.OC + o], 0, shape.B * shape.T)
            /\ mem.dbias = Null => mem1.dbias = Null

\* a returned call with a null dbias and non-zero sums
C5_Witness ==
    /\ op = "matmul_backward" /\ Returned /\ mem.dbias = Null
    /\ \E i \in DOMAIN mem.dinp : mem1.dinp[i] # mem0.dinp[i]
    /\ \E i \in DOMAIN mem.dweight : mem1.dweight[i] # mem0.dweight[i]

\* C6: in matmul_backward only the phase A worker (b,t) touches
\* dinp[b,t,:], only the phase B worker o touches dweight[o,:] and
\* dbias[o], no phase B worker starts before all phase A workers are
\* done, the call returns after all phase B workers are done, and the
\* result is that of the sequential run under every interleaving.
C6_ContentionFree ==
    op = "matmul_backward" =>
        /\ \A e \in acc :
            /\ e.b = "dinp" => e.w = WorkerA((e.i \div shape.C) \div shape.T,
                                             (e.i \div shape.C) % shape.T)
            /\ e.b = "dweight" => e.w = WorkerB(e.i \div shape.C)
            /\ e.b = "dbias" => e.w = WorkerB(e.i)
        /\ \A w \in DOMAIN wk \cap WorkersB :
            (wk[w].k > 0 \/ wk[w].ld) => \A v \in WorkersA : wk[v].k = StepsA /\ ~wk[v].ld
        /\ Returned => \A w \in WorkersB : wk[w].k = StepsB /\ ~wk[w].ld
        /\ (pc = "idle" /\ calls = 1) => mem = MatmulBackwardSeq([m |-> mem0, a |-> {}]).m

\* both phase B workers are between the load and the store of a `+=`
\* after both phase A workers were
C6_Witness ==
    /\ op = "matmul_backward" /\ pc = "phaseB"
    /\ Cardinality({w \in WorkersB : wk[w].ld}) >= 2
    /\ \E e, f \in acc : e.b = "dinp" /\ f.b = "dinp" /\ e.w # f.w

----------------------------------------------------------------------------
(* Claims about the forward primitives. *)

\* some access of kind k to cell i of buffer b is logged for the latest call
Touched(k, b, i) == \E e \in acc : e.k = k /\ e.b = b /\ e.i = i

\* the cells preatt[b, h, t, t2] with t2 > t
MaskedCells ==
    UNION {{AttRow(b, h, t) + t2 : t2 \in t + 1 .. shape.T - 1} :
           b \in 0 .. shape.B - 1, h \in 0 .. shape.NH - 1, t \in 0 .. shape.T - 1}

\* C2 as stated: a forward primitive writes every cell of each of its
\* output buffers (all of preatt included), never reads what an output cell
\* held before the call, and a second call leaves every cell unchanged.
C2_Original ==
    Returned =>
        /\ \A b \in DOMAIN mem : \A i \in DOMAIN mem[b] : Touched("w", b, i)
        /\ \A e \in acc : e.k # "p"
        /\ mem = mem1

\* C2 as amended: the same for every output cell except the cells
\* preatt[b, h, t, t2] with t2 > t of attention_forward, which are neither
\* written nor read and keep what they held before the call.
C2_ForwardOverwrites ==
    Returned =>
        /\ \A b \in DOMAIN mem : \A i \in DOMAIN mem[b] :
            IF op = "attention_forward" /\ b = "preatt" /\ i \in MaskedCells
            THEN /\ \A e \in acc : ~(e.b = b /\ e.i = i)
                 /\ mem[b][i] = mem0[b][i]
            ELSE Touched("w", b, i)
        /\ \A e \in acc : e.k # "p"
        /\ mem = mem1

\* attention_forward returned twice over non-zero prior contents of out, of
\* att and of a cell of preatt after the diagonal
C2_Witness ==
    /\ op = "attention_forward" /\ pc = "idle" /\ calls = 2
    /\ \E i \in MaskedCells : mem0.preatt[i] # 0
    /\ \E i \in DOMAIN mem.out : mem0.out[i] # 0 /\ mem.out[i] # mem0.out[i]
    /\ \E i \in DOMAIN mem.att : mem0.att[i] # 0 /\ mem.att[i] # mem0.att[i]

\* C3: whichever branch matmul_forward takes and under every interleaving,
\* after it returns out[b,t,o] = bias[o] + sum over i of inp[b,t,i] * W[o,i],
\* the bias term being 0 for a null bias, which is never dereferenced.
C3_MatmulForwardClosedForm ==
    op = "matmul_forward" =>
        /\ inp.bias = Null => \A e \in acc : e.b # "bias"
        /\ (Returned /\ fp = "exact") =>
            \A bt \in 0 .. shape.B * shape.T - 1 : \A o \in 0 .. shape.OC - 1 :
                mem.out[bt * shape.OC + o] =
                    (IF inp.bias = Null THEN 0 ELSE inp.bias[o])
                    + SumOf(LAMBDA i : inp.inp[bt * shape.C + i] * inp.weight[o * shape.C + i],
                            0, shape.C)

\* a returned call of either branch with a null bias, C = 2 and weight rows
\* that differ
C3_Witness ==
    /\ op = "matmul_forward" /\ Returned /\ fp = "exact" /\ inp.bias = Null
    /\ shape.C = 2 /\ shape.OC = 2
    /\ inp.weight[0] # inp.weight[2]
    /\ \E i \in DOMAIN mem.out : mem.out[i] # 0 /\ mem.out[i] # mem0.out[i]

\* C4: matmul_forward runs the unrolled path exactly when B * T is a
\* multiple of 8 and the naive one otherwise; on the unrolled path every
\* position bt is written by the one block bt - bt % 8 and out[bt, o] is
\* the value matmul_forward_naive accumulates (bias first, then
\* i = 0..C-1), in exact and in rounded arithmetic.
C4_UnrolledMatchesNaive ==
    op = "matmul_forward" =>
        /\ pc = "unrolled" => (shape.B * shape.T) % 8 = 0
        /\ pc = "naive" => (shape.B * shape.T) % 8 # 0
        /\ \A e \in acc : e.b = "out" =>
            e.w = IF (shape.B * shape.T) % 8 = 0
                  THEN WorkerU((e.i \div shape.OC) - ((e.i \div shape.OC) % 8))
                  ELSE WorkerN((e.i \div shape.OC) \div shape.T, (e.i \div shape.OC) % shape.T)
        /\ Returned =>
            \A bt \in 0 .. shape.B * shape.T - 1 : \A o \in 0 .. shape.OC - 1 :
                /\ Touched("w", "out", bt * shape.OC + o)
                /\ mem.out[bt * shape.OC + o] = MatmulForwardNaiveVal(bt, o)

\* the unrolled path returned with two blocks, a bias and a sum that the
\* rounded arithmetic cannot represent
C4_Witness ==
    /\ op = "matmul_forward" /\ Returned /\ fp = "round" /\ inp.bias # Null
    /\ shape.B * shape.T = 16
    /\ \E e, f \in acc : e.b = "out" /\ f.b = "out" /\ e.w # f.w /\ e.w[1] = "U"
    /\ \E bt \in 0 .. shape.B * shape.T - 1 :
        mem.out[bt * shape.OC] #
            inp.bias[0] + SumOf(LAMBDA i : inp.inp[bt * shape.C + i] * inp.weight[i], 0, shape.C)

\* C7: after attention_forward returns, att[b,h,t,t2] = 0 for every t2 > t,
\* whatever att held before and whatever the input is.
C7_CausalMask ==
    (op = "attention_forward" /\ Returned) =>
        \A b \in 0 .. shape.B - 1 : \A h \in 0 .. shape.NH - 1 :
        \A t \in 0 .. shape.T - 1 : \A t2 \in t + 1 .. shape.T - 1 :
            mem.att[AttRow(b, h, t) + t2] = 0

\* att[b, h, 0, 1] held a non-zero value before the call, att[b, h, 0, 0]
\* is non-zero after it
C7_Witness ==
    /\ op = "attention_forward" /\ Returned /\ shape.T >= 2
    /\ \E b \in 0 .. shape.B - 1 : \E h \in 0 .. shape.NH - 1 :
        /\ mem0.att[AttRow(b, h, 0) + 1] # 0
        /\ mem.att[AttRow(b, h, 0)] # 0

\* C8: in attention_forward worker (b,t,h) writes only preatt[b,h,t,:],
\* att[b,h,t,:] and out[b,t,h*hs .. h*hs+hs), so no cell has two writers;
\* it reads no cell of these buffers before having written it; and the
\* buffers after the call are those of the sequential run of the triples.
C8_WorkersIndependent ==
    op = "attention_forward" =>
        /\ \A e \in acc :
            LET row == AttRow(e.w[2], e.w[4], e.w[3])
                o == OutAt(e.w[2], e.w[3], e.w[4])
            IN  /\ e.w \in WorkersW
                /\ e.b \in {"preatt", "att"} => e.i \in row .. row + shape.T - 1
                /\ e.b = "out" => e.i \in o .. o + HeadSize - 1
                /\ e.k # "p"
        /\ \A e, f \in acc : (e.k = "w" /\ f.k = "w" /\ e.b = f.b /\ e.i = f.i) => e.w = f.w
        /\ (pc = "idle" /\ calls = 1) => mem = AttentionForwardSeq(mem0)
        /\ (pc = "idle" /\ calls = 2) => mem = AttentionForwardSeq(mem1)

\* two heads: a worker has finished while another of the same (b, t) has
\* not started and one of an earlier t is in between
C8_Witness ==
    /\ op = "attention_forward" /\ pc = "par" /\ shape.NH = 2
    /\ wk[WorkerW(0, 1, 1)].k = 4
    /\ wk[WorkerW(0, 1, 0)].k = 0
    /\ wk[WorkerW(0, 0, 0)].k = 2

\* sum of the first V cells of row bt of a buffer with rows of Vp cells
RowSum(buf, bt) == SumOf(LAMBDA i : buf[bt * shape.Vp + i], 0, shape.V)

\* C12: after crossentropy_softmax_backward on a zeroed dlogits, with
\* targets in 0..V-1, the first V cells of row (b,t) of dlogits sum to
\* (sum of p - 1) * dlosses[b,t], which is 0 for a row of probs that sums
\* to 1.
C12_RowSumsToZero ==
    (/\ op = "crossentropy_softmax_backward" /\ pc = "idle" /\ calls = 1
     /\ \A c \in DOMAIN mem0.dlogits : mem0.dlogits[c] = 0
     /\ \A bt \in DOMAIN inp.targets : inp.targets[bt] \in 0 .. shape.V - 1) =>
        \A bt \in 0 .. shape.B * shape.T - 1 :
            /\ RowSum(mem.dlogits, bt) = (RowSum(inp.probs, bt) - ONE) * inp.dlosses[bt]
            /\ RowSum(inp.probs, bt) = ONE => RowSum(mem.dlogits, bt) = 0

\* a row of probs that sums to 1, with a non-zero dloss and non-zero
\* gradients that cancel
C12_Witness ==
    /\ op = "crossentropy_softmax_backward" /\ pc = "idle" /\ calls = 1
    /\ \A c \in DOMAIN mem0.dlogits : mem0.dlogits[c] = 0
    /\ \E bt \in 0 .. shape.B * shape.T - 1 :
        /\ RowSum(inp.probs, bt) = ONE
        /\ inp.dlosses[bt] # 0
        /\ mem.dlogits[bt * shape.Vp] # 0
        /\ inp.probs[bt * shape.Vp + inp.targets[bt]] \notin {0, ONE}

\* C13 as stated: after residual_backward returns, dinp1[i] = dinp2[i] for
\* every i.
C13_Original ==
    (op = "residual_backward" /\ Returned) =>
        \A i \in 0 .. shape.N - 1 : mem.dinp1[i] = mem.dinp2[i]

\* C13 as amended: residual_backward adds the same amount to dinp1[i] and
\* to dinp2[i], so their difference is what it was before the call, and
\* they are equal after the call exactly when they were equal before it.
C13_SameIncrement ==
    (op = "residual_backward" /\ Returned) =>
        \A i \in 0 .. shape.N - 1 :
            /\ mem.dinp1[i] - mem0.dinp1[i] = mem.dinp2[i] - mem0.dinp2[i]
            /\ mem.dinp1[i] - mem0.dinp1[i] = calls * inp.dout[i]
            /\ (mem.dinp1[i] = mem.dinp2[i]) <=> (mem0.dinp1[i] = mem0.dinp2[i])

\* a call on gradient buffers that differed in one cell and agreed in
\* another
C13_Witness ==
    /\ op = "residual_backward" /\ Returned
    /\ \E i, j \in 0 .. shape.N - 1 :
        /\ mem0.dinp1[i] # mem0.dinp2[i] /\ inp.dout[i] # 0
        /\ mem0.dinp1[j] = mem0.dinp2[j] /\ inp.dout[j] # 0

\* attention_backward has returned once from zeroed dinp, dpreatt and datt
FromZero ==
    /\ op = "attention_backward" /\ pc = "idle" /\ calls = 1
    /\ \A b \in DOMAIN mem0 : \A c \in DOMAIN mem0[b] : mem0[b][c] = 0

\* C15: attention_backward from zeroed gradients runs on one thread and
\* leaves, for t2, t3 <= t, datt[b,h,t,t2] = sum_i V * dout,
\* dpreatt[b,h,t,t3] = sum over t2 <= t of att[t2] * ([t2 = t3] - att[t3])
\* * datt[t2], dQ[b,t,h,i] = scale * sum over t2 <= t of K * dpreatt, and
\* for every key/value position t2 the sums over all t >= t2:
\* dK[b,t2,h,i] = scale * sum of Q[b,t,h,i] * dpreatt[b,h,t,t2] and
\* dV[b,t2,h,i] = sum of att[b,h,t,t2] * dout[b,t,h,i].
C15_AttentionBackwardSums ==
    FromZero =>
        /\ \A e \in acc : e.w = Main
        /\ \A b \in 0 .. shape.B - 1 : \A h \in 0 .. shape.NH - 1 :
           \A t \in 0 .. shape.T - 1 :
            LET row == AttRow(b, h, t)
            IN  /\ \A t2 \in 0 .. t :
                    mem.datt[row + t2] =
                        SumOf(LAMBDA i : inp.inp[ValueAt(b, t2, h) + i]
                                         * inp.dout[OutAt(b, t, h) + i], 0, HeadSize)
                /\ \A t3 \in 0 .. t :
                    mem.dpreatt[row + t3] =
                        SumOf(LAMBDA t2 : inp.att[row + t2]
                                          * ((IF t2 = t3 THEN 1 ELSE 0) - inp.att[row + t3])
                                          * mem.datt[row + t2], 0, t + 1)
                /\ \A i \in 0 .. HeadSize - 1 :
                    /\ mem.dinp[QueryAt(b, t, h) + i] =
                            AttScale(HeadSize)
                            * SumOf(LAMBDA t2 : inp.inp[KeyAt(b, t2, h) + i]
                                               * mem.dpreatt[row + t2], 0, t + 1)
                    /\ mem.dinp[KeyAt(b, t, h) + i] =
                            AttScale(HeadSize)
                            * SumOf(LAMBDA u : inp.inp[QueryAt(b, u, h) + i]
                                              * mem.dpreatt[AttRow(b, h, u) + t], t, shape.T)
                    /\ mem.dinp[ValueAt(b, t, h) + i] =
                            SumOf(LAMBDA u : inp.att[AttRow(b, h, u) + t]
                                             * inp.dout[OutAt(b, u, h) + i], t, shape.T)

\* two heads; a key cell and a value cell of position 0 that got a non-zero
\* contribution from each of the query positions 0 and 1
C15_Witness ==
    /\ FromZero /\ shape.NH = 2 /\ shape.T >= 2
    /\ \E h \in 0 .. shape.NH - 1 :
        /\ \A u \in 0 .. 1 :
            /\ inp.inp[QueryAt(0, u, h)] * mem.dpreatt[AttRow(0, h, u)] # 0
            /\ inp.att[AttRow(0, h, u)] * inp.dout[OutAt(0, u, h)] # 0
        /\ mem.dinp[KeyAt(0, 0, h)] # 0
        /\ mem.dinp[ValueAt(0, 0, h)] # 0

----------------------------------------------------------------------------
(* Claims about calls on rewritten inputs. *)

\* row (b, t) of logits holds in its first V cells what it held at the
\* first call
SameLogits(b, t) ==
    \A i \in 0 .. shape.V - 1 : inp.logits[RowAt(b, t) + i] = saved.logits[RowAt(b, t) + i]

\* C11: after softmax_forward returns probs[b,t,i] = 0 for every i in
\* V..Vp-1, and probs[b,t,0..V) is the same for two calls whose logits
\* agree on the first V cells of the row, whatever the padded logits are.
C11_PaddingZeroAndIgnored ==
    (op = "softmax_forward" /\ Returned) =>
        \A b \in 0 .. shape.B - 1 : \A t \in 0 .. shape.T - 1 :
            /\ \A i \in shape.V .. shape.Vp - 1 : mem.probs[RowAt(b, t) + i] = 0
            /\ SameLogits(b, t) =>
                \A i \in 0 .. shape.V - 1 :
                    mem.probs[RowAt(b, t) + i] = mem1.probs[RowAt(b, t) + i]

\* the second call ran on a row whose padded logit was rewritten to a
\* value not below any other logit of the row, over a non-zero padded probs
C11_Witness ==
    /\ op = "softmax_forward" /\ pc = "idle" /\ calls >= 2 /\ shape.Vp > shape.V
    /\ \E e \in acc : e.k = "w"
    /\ \E b \in 0 .. shape.B - 1 : \E t \in 0 .. shape.T - 1 :
        /\ SameLogits(b, t)
        /\ inp.logits[RowAt(b, t) + shape.V] # saved.logits[RowAt(b, t) + shape.V]
        /\ \A i \in 0 .. shape.V - 1 :
            inp.logits[RowAt(b, t) + shape.V] >= inp.logits[RowAt(b, t) + i]
        /\ mem0.probs[RowAt(b, t) + shape.V] # 0
        /\ mem.probs[RowAt(b, t)] # 0

\* the loss sum(out * g) of the perturbed input minus that of the input
LossDelta ==
    SumOf(LAMBDA c : (mem.out[c] - mem1.out[c]) * inp.dout[c], 0, Cardinality(DOMAIN mem.out))

\* sum over the cells of the input buffer b of the gradient in buffer g
\* times the perturbation
GradDot(g, b) ==
    SumOf(LAMBDA c : mem[g][c] * (inp[b][c] - saved[b][c]), 0, Cardinality(DOMAIN mem[g]))

\* the forward call on x, the backward call and the forward call on x + d
\* have returned
GradientChecked == pc = "idle" /\ calls = 3 /\ "dout" \in DOMAIN inp /\ inp # saved

\* C14: for matmul and residual, with the gradient buffers zeroed and
\* dout = g, L(inp + d) - L(inp) = sum of dinp * d for the loss
\* L = sum(out * g), with and without a bias on the matmul.
C14_LinearGradientExact ==
    /\ (op = "matmul_forward" /\ GradientChecked) => LossDelta = GradDot("dinp", "inp")
    /\ (op = "residual_forward" /\ GradientChecked) =>
        LossDelta = GradDot("dinp1", "inp1") + GradDot("dinp2", "inp2")

\* the unrolled matmul with a bias, a non-zero loss difference and
\* non-zero gradients
C14_Witness ==
    /\ op = "matmul_forward" /\ GradientChecked
    /\ shape.B * shape.T = 8 /\ inp.bias # Null
    /\ LossDelta # 0
    /\ \E c, e \in DOMAIN mem.dinp : mem.dinp[c] # 0 /\ mem.dinp[e] # mem.dinp[c]

\* the qkv input holds in the slices of (b, t, h) what it held at the first
\* call
SameSlices(b, t, h) == \A c \in Slices(b, t, h) : inp.inp[c] = saved.inp[c]

\* C16: the results of attention_forward for (b, t, h), out[b,t,h*hs..],
\* att[b,h,t,:] and preatt[b,h,t,0..t], are the same for two calls whose
\* qkv inputs agree on the query slice of (b, t, h) and on the key and
\* value slices of (b, t2, h), t2 <= t; hence for every head when the
\* inputs agree on batch b at the positions 0..t.
C16_CausalBatchLocal ==
    (op = "attention_forward" /\ Returned) =>
        \A b \in 0 .. shape.B - 1 : \A t \in 0 .. shape.T - 1 :
        \A h \in 0 .. shape.NH - 1 :
            SameSlices(b, t, h) =>
                /\ \A i \in 0 .. HeadSize - 1 :
                    mem.out[OutAt(b, t, h) + i] = mem1.out[OutAt(b, t, h) + i]
                /\ \A t2 \in 0 .. shape.T - 1 :
                    mem.att[AttRow(b, h, t) + t2] = mem1.att[AttRow(b, h, t) + t2]
                /\ \A t2 \in 0 .. t :
                    mem.preatt[AttRow(b, h, t) + t2] = mem1.preatt[AttRow(b, h, t) + t2]

\* the second call ran on an input that kept position 0 of batch 0 and had
\* another key at position 1, which changed the scores of position 1
C16_Witness ==
    /\ op = "attention_forward" /\ pc = "idle" /\ calls >= 2 /\ shape.T >= 2
    /\ \E e \in acc : e.k = "w"
    /\ \A h \in 0 .. shape.NH - 1 : SameSlices(0, 0, h)
    /\ \E h \in 0 .. shape.NH - 1 :
        /\ inp.inp[KeyAt(0, 1, h)] # saved.inp[KeyAt(0, 1, h)]
        /\ mem.preatt[AttRow(0, h, 1) + 1] # mem1.preatt[AttRow(0, h, 1) + 1]
        /\ mem.out[OutAt(0, 0, h)] # 0

====
